---- MODULE Spec2Model ----
(* Indiana coordinate transformer (src/app.py): county registry, zone selection,
   county resolution (bounding boxes, then cached boundary polygons), upload
   cleaning and the batch transform. Text is modelled as sequences of
   one-character strings; Join turns such a sequence into the string used as a
   dictionary key. Angles are integers in tenths of a degree. *)
EXTENDS Integers, Sequences, FiniteSets, TLC

(* ---------- bounds of the model ---------- *)
MaxRows == 2

(* ---------- constants of the program ---------- *)
\* INDIANA_STATE_PLANE, src/app.py:18-21
INDIANA_STATE_PLANE == [EAST |-> 2965, WEST |-> 2966]

\* Python's None where a string is expected
None == "None"
\* the float NaN: a number is a one-element sequence, NaN the empty one
NaN == <<>>
\* the left join's missing value where no polygon holds the point
NoFeature == "NaN"

\* a dict literal: the keys of the pairs, each with the value of its last pair
DictOf(pairs) ==
  [k \in { pairs[i][1] : i \in 1..Len(pairs) } |->
     pairs[CHOOSE i \in 1..Len(pairs) :
             /\ pairs[i][1] = k
             /\ \A j \in (i+1)..Len(pairs) : pairs[j][1] # k][2]]

\* the embedded table returned by load_county_epsg_codes, src/app.py:38-62
DefaultCountyEpsg ==
  DictOf(<<
    <<"ADAMS",7301>>, <<"ALLEN",7260>>, <<"BARTHOLOMEW",7303>>, <<"BLACKFORD",7304>>,
    <<"BROWN",7305>>, <<"CASS",7306>>, <<"CLARK",7307>>, <<"DEKALB",7308>>,
    <<"DEARBORN",7309>>, <<"DECATUR",7310>>, <<"DELAWARE",7266>>, <<"ELKHART",7300>>,
    <<"FAYETTE",7313>>, <<"FLOYD",7314>>, <<"FRANKLIN",7315>>, <<"FULTON",7300>>,
    <<"GRANT",7316>>, <<"HAMILTON",7317>>, <<"HANCOCK",7308>>, <<"HARRISON",7319>>,
    <<"HENRY",7312>>, <<"HOWARD",7320>>, <<"HUNTINGTON",7321>>, <<"JACKSON",7322>>,
    <<"JAY",7323>>, <<"JEFFERSON",7324>>, <<"JENNINGS",7325>>, <<"JOHNSON",7326>>,
    <<"KOSCIUSKO",7327>>, <<"LAGRANGE",7328>>, <<"MADISON",7329>>, <<"MARION",7330>>,
    <<"MARSHALL",7300>>, <<"MIAMI",7331>>, <<"NOBLE",7332>>, <<"OHIO",7333>>,
    <<"RANDOLPH",7334>>, <<"RIPLEY",7354>>, <<"RUSH",7335>>, <<"SCOTT",7336>>,
    <<"SHELBY",7337>>, <<"ST_JOSEPH",7300>>, <<"STEUBEN",7338>>, <<"SWITZERLAND",7339>>,
    <<"TIPTON",7340>>, <<"UNION",7341>>, <<"WABASH",7342>>, <<"WASHINGTON",7343>>,
    <<"WAYNE",7352>>, <<"WELLS",7344>>, <<"WHITLEY",7345>>, <<"BENTON",7346>>,
    <<"BOONE",7268>>, <<"CARROLL",7348>>, <<"CLAY",7349>>, <<"CLINTON",7350>>,
    <<"CRAWFORD",7351>>, <<"DAVIESS",7355>>, <<"DUBOIS",7356>>, <<"FOUNTAIN",7357>>,
    <<"GIBSON",7358>>, <<"GREENE",7359>>, <<"HENDRICKS",7268>>, <<"JASPER",7320>>,
    <<"KNOX",7361>>, <<"LA_PORTE",7362>>, <<"LAKE",7363>>, <<"LAWRENCE",7364>>,
    <<"MARTIN",7365>>, <<"MONROE",7366>>, <<"MONTGOMERY",7340>>, <<"MORGAN",7368>>,
    <<"NEWTON",7369>>, <<"ORANGE",7370>>, <<"OWEN",7371>>, <<"PARKE",7372>>,
    <<"PERRY",9774>>, <<"PIKE",7348>>, <<"PORTER",7375>>, <<"POSEY",7376>>,
    <<"PULASKI",7377>>, <<"PUTNAM",7378>>, <<"SPENCER",7379>>, <<"STARKE",7380>>,
    <<"SULLIVAN",7381>>, <<"TIPPECANOE",7382>>, <<"VANDERBURGH",7383>>,
    <<"VERMILLION",7384>>, <<"VIGO",7385>>, <<"WARREN",7386>>, <<"WARRICK",7387>> >>)

\* east_counties, src/app.py:76-85
east_counties ==
  {
    "ADAMS", "ALLEN", "BARTHOLOMEW", "BLACKFORD", "BROWN", "CASS", "CLARK", "DEKALB",
    "DEARBORN", "DECATUR", "DELAWARE", "ELKHART", "FAYETTE", "FLOYD", "FRANKLIN",
    "FULTON", "GRANT", "HAMILTON", "HANCOCK", "HARRISON", "HENRY", "HOWARD",
    "HUNTINGTON", "JACKSON", "JAY", "JEFFERSON", "JENNINGS", "JOHNSON", "KOSCIUSKO",
    "LAGRANGE", "MADISON", "MARION", "MARSHALL", "MIAMI", "NOBLE", "OHIO", "RANDOLPH",
    "RIPLEY", "RUSH", "SCOTT", "SHELBY", "ST_JOSEPH", "STEUBEN", "SWITZERLAND",
    "TIPTON", "UNION", "WABASH", "WASHINGTON", "WAYNE", "WELLS", "WHITLEY" }

\* the dict literal of get_indiana_fips_mapping, src/app.py:129-153, in source order
FipsPairs ==
  <<
    <<"18001","ADAMS">>, <<"18003","ALLEN">>, <<"18005","BARTHOLOMEW">>,
    <<"18007","BENTON">>, <<"18009","BLACKFORD">>, <<"18011","BOONE">>,
    <<"18013","BROWN">>, <<"18015","CARROLL">>, <<"18017","CASS">>, <<"18019","CLARK">>,
    <<"18021","CLAY">>, <<"18023","CLINTON">>, <<"18025","CRAWFORD">>,
    <<"18027","DAVIESS">>, <<"18029","DEARBORN">>, <<"18031","DECATUR">>,
    <<"18033","DEKALB">>, <<"18035","DELAWARE">>, <<"18037","DUBOIS">>,
    <<"18039","ELKHART">>, <<"18041","FAYETTE">>, <<"18043","FLOYD">>,
    <<"18045","FOUNTAIN">>, <<"18047","FRANKLIN">>, <<"18049","FULTON">>,
    <<"18051","GIBSON">>, <<"18053","GRANT">>, <<"18055","GREENE">>,
    <<"18057","HAMILTON">>, <<"18059","HANCOCK">>, <<"18061","HARRISON">>,
    <<"18063","HENDRICKS">>, <<"18065","HENRY">>, <<"18067","HOWARD">>,
    <<"18069","HUNTINGTON">>, <<"18071","JACKSON">>, <<"18073","JASPER">>,
    <<"18075","JAY">>, <<"18077","JEFFERSON">>, <<"18079","JENNINGS">>,
    <<"18081","JOHNSON">>, <<"18083","KNOX">>, <<"18085","KOSCIUSKO">>,
    <<"18087","LAGRANGE">>, <<"18089","LAKE">>, <<"18091","LA_PORTE">>,
    <<"18093","LAWRENCE">>, <<"18095","MADISON">>, <<"18097","MARION">>,
    <<"18099","MARSHALL">>, <<"18101","MARTIN">>, <<"18103","MIAMI">>,
    <<"18105","MONROE">>, <<"18107","MONTGOMERY">>, <<"18109","MORGAN">>,
    <<"18111","NEWTON">>, <<"18113","NOBLE">>, <<"18115","OHIO">>, <<"18117","ORANGE">>,
    <<"18119","OWEN">>, <<"18121","PARKE">>, <<"18123","PERRY">>, <<"18125","PIKE">>,
    <<"18127","PORTER">>, <<"18129","POSEY">>, <<"18131","PULASKI">>,
    <<"18133","PUTNAM">>, <<"18135","RANDOLPH">>, <<"18137","RIPLEY">>,
    <<"18139","RUSH">>, <<"18141","SCOTT">>, <<"18143","SHELBY">>,
    <<"18145","SPENCER">>, <<"18141","ST_JOSEPH">>, <<"18149","STARKE">>,
    <<"18151","STEUBEN">>, <<"18153","SULLIVAN">>, <<"18155","SWITZERLAND">>,
    <<"18157","TIPPECANOE">>, <<"18159","TIPTON">>, <<"18161","UNION">>,
    <<"18163","VANDERBURGH">>, <<"18165","VERMILLION">>, <<"18167","VIGO">>,
    <<"18169","WABASH">>, <<"18171","WARREN">>, <<"18173","WARRICK">>,
    <<"18175","WASHINGTON">>, <<"18177","WAYNE">>, <<"18179","WELLS">>,
    <<"18181","WHITE">>, <<"18183","WHITLEY">> >>

\* the characters of every county key that occurs in the tables above
Spell ==
  DictOf(<<
    <<"ADAMS", <<"A","D","A","M","S">>>>,
    <<"ALLEN", <<"A","L","L","E","N">>>>,
    <<"BARTHOLOMEW", <<"B","A","R","T","H","O","L","O","M","E","W">>>>,
    <<"BLACKFORD", <<"B","L","A","C","K","F","O","R","D">>>>,
    <<"BROWN", <<"B","R","O","W","N">>>>,
    <<"CASS", <<"C","A","S","S">>>>,
    <<"CLARK", <<"C","L","A","R","K">>>>,
    <<"DEKALB", <<"D","E","K","A","L","B">>>>,
    <<"DEARBORN", <<"D","E","A","R","B","O","R","N">>>>,
    <<"DECATUR", <<"D","E","C","A","T","U","R">>>>,
    <<"DELAWARE", <<"D","E","L","A","W","A","R","E">>>>,
    <<"ELKHART", <<"E","L","K","H","A","R","T">>>>,
    <<"FAYETTE", <<"F","A","Y","E","T","T","E">>>>,
    <<"FLOYD", <<"F","L","O","Y","D">>>>,
    <<"FRANKLIN", <<"F","R","A","N","K","L","I","N">>>>,
    <<"FULTON", <<"F","U","L","T","O","N">>>>,
    <<"GRANT", <<"G","R","A","N","T">>>>,
    <<"HAMILTON", <<"H","A","M","I","L","T","O","N">>>>,
    <<"HANCOCK", <<"H","A","N","C","O","C","K">>>>,
    <<"HARRISON", <<"H","A","R","R","I","S","O","N">>>>,
    <<"HENRY", <<"H","E","N","R","Y">>>>,
    <<"HOWARD", <<"H","O","W","A","R","D">>>>,
    <<"HUNTINGTON", <<"H","U","N","T","I","N","G","T","O","N">>>>,
    <<"JACKSON", <<"J","A","C","K","S","O","N">>>>,
    <<"JAY", <<"J","A","Y">>>>,
    <<"JEFFERSON", <<"J","E","F","F","E","R","S","O","N">>>>,
    <<"JENNINGS", <<"J","E","N","N","I","N","G","S">>>>,
    <<"JOHNSON", <<"J","O","H","N","S","O","N">>>>,
    <<"KOSCIUSKO", <<"K","O","S","C","I","U","S","K","O">>>>,
    <<"LAGRANGE", <<"L","A","G","R","A","N","G","E">>>>,
    <<"MADISON", <<"M","A","D","I","S","O","N">>>>,
    <<"MARION", <<"M","A","R","I","O","N">>>>,
    <<"MARSHALL", <<"M","A","R","S","H","A","L","L">>>>,
    <<"MIAMI", <<"M","I","A","M","I">>>>,
    <<"NOBLE", <<"N","O","B","L","E">>>>,
    <<"OHIO", <<"O","H","I","O">>>>,
    <<"RANDOLPH", <<"R","A","N","D","O","L","P","H">>>>,
    <<"RIPLEY", <<"R","I","P","L","E","Y">>>>,
    <<"RUSH", <<"R","U","S","H">>>>,
    <<"SCOTT", <<"S","C","O","T","T">>>>,
    <<"SHELBY", <<"S","H","E","L","B","Y">>>>,
    <<"ST_JOSEPH", <<"S","T","_","J","O","S","E","P","H">>>>,
    <<"STEUBEN", <<"S","T","E","U","B","E","N">>>>,
    <<"SWITZERLAND", <<"S","W","I","T","Z","E","R","L","A","N","D">>>>,
    <<"TIPTON", <<"T","I","P","T","O","N">>>>,
    <<"UNION", <<"U","N","I","O","N">>>>,
    <<"WABASH", <<"W","A","B","A","S","H">>>>,
    <<"WASHINGTON", <<"W","A","S","H","I","N","G","T","O","N">>>>,
    <<"WAYNE", <<"W","A","Y","N","E">>>>,
    <<"WELLS", <<"W","E","L","L","S">>>>,
    <<"WHITLEY", <<"W","H","I","T","L","E","Y">>>>,
    <<"BENTON", <<"B","E","N","T","O","N">>>>,
    <<"BOONE", <<"B","O","O","N","E">>>>,
    <<"CARROLL", <<"C","A","R","R","O","L","L">>>>,
    <<"CLAY", <<"C","L","A","Y">>>>,
    <<"CLINTON", <<"C","L","I","N","T","O","N">>>>,
    <<"CRAWFORD", <<"C","R","A","W","F","O","R","D">>>>,
    <<"DAVIESS", <<"D","A","V","I","E","S","S">>>>,
    <<"DUBOIS", <<"D","U","B","O","I","S">>>>,
    <<"FOUNTAIN", <<"F","O","U","N","T","A","I","N">>>>,
    <<"GIBSON", <<"G","I","B","S","O","N">>>>,
    <<"GREENE", <<"G","R","E","E","N","E">>>>,
    <<"HENDRICKS", <<"H","E","N","D","R","I","C","K","S">>>>,
    <<"JASPER", <<"J","A","S","P","E","R">>>>,
    <<"KNOX", <<"K","N","O","X">>>>,
    <<"LA_PORTE", <<"L","A","_","P","O","R","T","E">>>>,
    <<"LAKE", <<"L","A","K","E">>>>,
    <<"LAWRENCE", <<"L","A","W","R","E","N","C","E">>>>,
    <<"MARTIN", <<"M","A","R","T","I","N">>>>,
    <<"MONROE", <<"M","O","N","R","O","E">>>>,
    <<"MONTGOMERY", <<"M","O","N","T","G","O","M","E","R","Y">>>>,
    <<"MORGAN", <<"M","O","R","G","A","N">>>>,
    <<"NEWTON", <<"N","E","W","T","O","N">>>>,
    <<"ORANGE", <<"O","R","A","N","G","E">>>>,
    <<"OWEN", <<"O","W","E","N">>>>,
    <<"PARKE", <<"P","A","R","K","E">>>>,
    <<"PERRY", <<"P","E","R","R","Y">>>>,
    <<"PIKE", <<"P","I","K","E">>>>,
    <<"PORTER", <<"P","O","R","T","E","R">>>>,
    <<"POSEY", <<"P","O","S","E","Y">>>>,
    <<"PULASKI", <<"P","U","L","A","S","K","I">>>>,
    <<"PUTNAM", <<"P","U","T","N","A","M">>>>,
    <<"SPENCER", <<"S","P","E","N","C","E","R">>>>,
    <<"STARKE", <<"S","T","A","R","K","E">>>>,
    <<"SULLIVAN", <<"S","U","L","L","I","V","A","N">>>>,
    <<"TIPPECANOE", <<"T","I","P","P","E","C","A","N","O","E">>>>,
    <<"VANDERBURGH", <<"V","A","N","D","E","R","B","U","R","G","H">>>>,
    <<"VERMILLION", <<"V","E","R","M","I","L","L","I","O","N">>>>,
    <<"VIGO", <<"V","I","G","O">>>>,
    <<"WARREN", <<"W","A","R","R","E","N">>>>,
    <<"WARRICK", <<"W","A","R","R","I","C","K">>>>,
    <<"WHITE", <<"W","H","I","T","E">>>> >>)

(* ---------- text ---------- *)
LowerAlpha == <<"a","b","c","d","e","f","g","h","i","j","k","l","m",
                "n","o","p","q","r","s","t","u","v","w","x","y","z">>
UpperAlpha == <<"A","B","C","D","E","F","G","H","I","J","K","L","M",
                "N","O","P","Q","R","S","T","U","V","W","X","Y","Z">>

IsLower(c) == \E i \in 1..26 : LowerAlpha[i] = c
IsUpper(c) == \E i \in 1..26 : UpperAlpha[i] = c
IsAlpha(c) == IsLower(c) \/ IsUpper(c)

\* one character of str.upper()
UpperChar(c) == IF IsLower(c) THEN UpperAlpha[CHOOSE i \in 1..26 : LowerAlpha[i] = c] ELSE c
\* one character of str.lower()
LowerChar(c) == IF IsUpper(c) THEN LowerAlpha[CHOOSE i \in 1..26 : UpperAlpha[i] = c] ELSE c

\* str.upper()
upper(s) == [i \in 1..Len(s) |-> UpperChar(s[i])]
\* str.lower()
lower(s) == [i \in 1..Len(s) |-> LowerChar(s[i])]
\* str.replace(a, b) for one-character a and b
replace(s, a, b) == [i \in 1..Len(s) |-> IF s[i] = a THEN b ELSE s[i]]
\* str.title(): a letter that follows a non-letter is upper-cased, any other lower-cased
title(s) ==
  [i \in 1..Len(s) |->
     IF i = 1 \/ ~IsAlpha(s[i-1]) THEN UpperChar(s[i]) ELSE LowerChar(s[i])]

RECURSIVE Join(_)
\* the string spelled by a sequence of characters
Join(s) == IF s = <<>> THEN "" ELSE Head(s) \o Join(Tail(s))

\* COUNTY_NAME_MAPPING, src/app.py:68-72: display name -> internal key
COUNTY_NAME_MAPPING ==
  ("La Porte" :> "LA_PORTE") @@ ("St Joseph" :> "ST_JOSEPH") @@
  ("Saint Joseph" :> "ST_JOSEPH")

\* dict.get(key, default)
DictGet(d, key, default) == IF key \in DOMAIN d THEN d[key] ELSE default

\* the county key computed at src/app.py:87-88 and again at 223-224
NormalizeCounty(county_name) ==
  LET county_upper == Join(replace(upper(county_name), " ", "_"))
  IN  DictGet(COUNTY_NAME_MAPPING, Join(county_name), county_upper)

\* a variant of the zone choice that never consults the alias table
get_state_plane_zone_NoAlias(county_name) ==
  IF Join(replace(upper(county_name), " ", "_")) \in east_counties
  THEN INDIANA_STATE_PLANE.EAST ELSE INDIANA_STATE_PLANE.WEST

\* get_state_plane_zone, src/app.py:74-90
get_state_plane_zone(county_name) ==
  IF NormalizeCounty(county_name) \in east_counties
  THEN INDIANA_STATE_PLANE.EAST ELSE INDIANA_STATE_PLANE.WEST

\* the display form of a county key, src/app.py:295 and 260
DisplayName(key) == title(replace(key, "_", " "))

(* ---------- county names given to the zone selector ---------- *)
CountyKeys == DOMAIN Spell
SaintJoseph == <<"S","a","i","n","t"," ","J","o","s","e","p","h">>
UnlistedNames == { <<>>, <<"A","t","l","a","n","t","i","s">>, <<"L","a","p","o","r","t","e">>,
                   <<"M","a","r","i","o","n"," ">>, <<"S","t","."," ","J","o","s","e","p","h">> }
NameInputs ==
  { Spell[k] : k \in CountyKeys } \cup { lower(Spell[k]) : k \in CountyKeys } \cup
  { DisplayName(Spell[k]) : k \in CountyKeys } \cup
  { lower(DisplayName(Spell[k])) : k \in CountyKeys } \cup
  { SaintJoseph, upper(SaintJoseph), lower(SaintJoseph) } \cup UnlistedNames

(* ---------- fast path: bounding boxes ---------- *)
\* county_bounds, src/app.py:163-176, in declaration order; tenths of a degree
county_bounds ==
  << [county |-> "LAKE",      lat |-> <<414, 418>>, lon |-> <<-876, -872>>],
     [county |-> "PORTER",    lat |-> <<413, 417>>, lon |-> <<-872, -868>>],
     [county |-> "LA_PORTE",  lat |-> <<413, 418>>, lon |-> <<-868, -864>>],
     [county |-> "ST_JOSEPH", lat |-> <<415, 418>>, lon |-> <<-865, -861>>],
     [county |-> "ELKHART",   lat |-> <<414, 418>>, lon |-> <<-861, -856>>],
     [county |-> "LAGRANGE",  lat |-> <<415, 418>>, lon |-> <<-856, -852>>],
     [county |-> "STEUBEN",   lat |-> <<415, 418>>, lon |-> <<-852, -848>>],
     [county |-> "ALLEN",     lat |-> <<409, 414>>, lon |-> <<-853, -848>>],
     [county |-> "MARION",    lat |-> <<396, 400>>, lon |-> <<-863, -859>>],
     [county |-> "HAMILTON",  lat |-> <<399, 402>>, lon |-> <<-862, -858>>],
     [county |-> "HENDRICKS", lat |-> <<397, 400>>, lon |-> <<-867, -863>>] >>

\* the test of src/app.py:179-180
InBounds(bounds, lat, lon) ==
  /\ bounds.lat[1] <= lat /\ lat <= bounds.lat[2]
  /\ bounds.lon[1] <= lon /\ lon <= bounds.lon[2]

RECURSIVE SimpleFrom(_, _, _)
\* the loop of src/app.py:178-183 from the i-th entry on
SimpleFrom(i, lat, lon) ==
  IF i > Len(county_bounds) THEN None
  ELSE IF InBounds(county_bounds[i], lat, lon) THEN county_bounds[i].county
  ELSE SimpleFrom(i + 1, lat, lon)

RECURSIVE SimpleLastFrom(_, _, _, _)
\* a loop that keeps the latest match instead of returning at the first
SimpleLastFrom(i, lat, lon, found) ==
  IF i > Len(county_bounds) THEN found
  ELSE SimpleLastFrom(i + 1, lat, lon,
         IF InBounds(county_bounds[i], lat, lon) THEN county_bounds[i].county ELSE found)

\* a variant of the fast path in which the last matching box wins
detect_county_simple_LastMatch(lat, lon) == SimpleLastFrom(1, lat, lon, None)

\* detect_county_simple, src/app.py:156-183
detect_county_simple(lat, lon) == SimpleFrom(1, lat, lon)

\* points given to the fast path: a grid around every box, one row and column beyond
PointInputs == { <<lat, lon>> : lat \in 395..419, lon \in (-877)..(-847) }

(* ---------- registry ---------- *)
\* what 'indiana_county_epsg.csv' can be when the script starts
CsvStates == {"missing", "ok", "unparseable", "no_columns"}

\* the registry a well-formed file yields (src/app.py:32-34); a sample file that
\* lists the embedded counties and WHITE
CsvFileTable == ("WHITE" :> 7388) @@ DefaultCountyEpsg

\* load_county_epsg_codes, src/app.py:23-62
load_county_epsg_codes(file) ==
  CASE file = "ok"          -> [raised |-> None, value |-> CsvFileTable, warning |-> FALSE]
    [] file = "missing"     -> [raised |-> None, value |-> DefaultCountyEpsg, warning |-> TRUE]
    [] file = "unparseable" -> [raised |-> "ParserError", value |-> <<>>, warning |-> FALSE]
    [] file = "no_columns"  -> [raised |-> "KeyError", value |-> <<>>, warning |-> FALSE]

(* ---------- boundary index ---------- *)
\* get_indiana_fips_mapping, src/app.py:127-153
get_indiana_fips_mapping == DictOf(FipsPairs)

\* the GEO_ID suffixes of the features whose STATE is '18' (src/app.py:103-106):
\* Indiana's county FIPS codes are 18001, 18003, ..., 18183
IndianaFips ==
  {
    "18001", "18003", "18005", "18007", "18009", "18011", "18013", "18015", "18017",
    "18019", "18021", "18023", "18025", "18027", "18029", "18031", "18033", "18035",
    "18037", "18039", "18041", "18043", "18045", "18047", "18049", "18051", "18053",
    "18055", "18057", "18059", "18061", "18063", "18065", "18067", "18069", "18071",
    "18073", "18075", "18077", "18079", "18081", "18083", "18085", "18087", "18089",
    "18091", "18093", "18095", "18097", "18099", "18101", "18103", "18105", "18107",
    "18109", "18111", "18113", "18115", "18117", "18119", "18121", "18123", "18125",
    "18127", "18129", "18131", "18133", "18135", "18137", "18139", "18141", "18143",
    "18145", "18147", "18149", "18151", "18153", "18155", "18157", "18159", "18161",
    "18163", "18165", "18167", "18169", "18171", "18173", "18175", "18177", "18179",
    "18181", "18183" }

\* how the request of src/app.py:99-100 can end
FetchOutcomes == {"ok", "timeout", "bad_json"}

\* the COUNTY_NAME column of the loaded frame ("gdf"), src/app.py:118-119, indexed
\* by the feature's FIPS code
CountyNameColumn ==
  [f \in IndianaFips |-> DictGet(get_indiana_fips_mapping, f, "Unknown")]

\* a loader without the handler of src/app.py:122-124
load_indiana_counties_geojson_NoCatch(fetch) ==
  IF fetch = "ok" THEN [raised |-> None, value |-> "gdf"]
  ELSE [raised |-> fetch, value |-> None]

\* load_indiana_counties_geojson, src/app.py:93-124
load_indiana_counties_geojson(fetch) ==
  IF fetch = "ok" THEN [raised |-> None, value |-> "gdf"]
  ELSE [raised |-> None, value |-> None]

\* the polygon the spatial join of src/app.py:207 finds for a point that no box
\* holds: a feature of the boundary data, or none (NaN after the left join)
BoundaryHits == {"18061", "18147", NoFeature}

\* a test that also asks for a new load after a load that returned None
NeedsLoad_RetryNone(boundaries) == boundaries = "absent" \/ boundaries = None

\* the test of src/app.py:195 on st.session_state
NeedsLoad(boundaries) == boundaries = "absent"

\* a resolver that materializes the boundaries before it tries the boxes
detect_county_from_coordinates_EagerLoad(lat, lon, boundaries, fetch, hit) ==
  LET county == detect_county_simple(lat, lon)
      loaded == load_indiana_counties_geojson(fetch)
      must   == NeedsLoad(boundaries)
      gdf    == IF must THEN loaded.value ELSE boundaries
      name   == IF hit = NoFeature THEN NoFeature ELSE CountyNameColumn[hit]
  IN  IF must /\ loaded.raised # None
        THEN [raised |-> loaded.raised, county |-> None, boundaries |-> boundaries,
              loads |-> 1, fetched |-> fetch]
      ELSE [raised |-> None,
            county |-> IF county # None THEN county
                       ELSE IF gdf = None \/ name = NoFeature THEN None ELSE name,
            boundaries |-> gdf,
            loads |-> IF must THEN 1 ELSE 0,
            fetched |-> IF must THEN fetch ELSE "unused"]

\* detect_county_from_coordinates, src/app.py:186-214. boundaries is
\* st.session_state.county_boundaries ("absent" while the key is not set); the
\* result carries the new value, the number of loads made and how the fetch ended
detect_county_from_coordinates(lat, lon, boundaries, fetch, hit) ==
  LET county == detect_county_simple(lat, lon)
      loaded == load_indiana_counties_geojson(fetch)
      must   == NeedsLoad(boundaries)
      gdf    == IF must THEN loaded.value ELSE boundaries
      name   == IF hit = NoFeature THEN NoFeature ELSE CountyNameColumn[hit]
  IN  IF county # None
        THEN [raised |-> None, county |-> county, boundaries |-> boundaries,
              loads |-> 0, fetched |-> "unused"]
      ELSE IF must /\ loaded.raised # None
        THEN [raised |-> loaded.raised, county |-> None, boundaries |-> boundaries,
              loads |-> 1, fetched |-> fetch]
      ELSE [raised |-> None,
            county |-> IF gdf = None \/ name = NoFeature THEN None ELSE name,
            boundaries |-> gdf,
            loads |-> IF must THEN 1 ELSE 0,
            fetched |-> IF must THEN fetch ELSE "unused"]

(* ---------- upload cleaning ---------- *)
RECURSIVE remove(_, _)
\* str.replace(a, '') for a one-character a
remove(s, a) ==
  IF s = <<>> THEN <<>>
  ELSE IF Head(s) = a THEN remove(Tail(s), a) ELSE <<Head(s)>> \o remove(Tail(s), a)

RECURSIVE lstrip(_)
lstrip(s) == IF s # <<>> /\ Head(s) = " " THEN lstrip(Tail(s)) ELSE s
RECURSIVE rstrip(_)
rstrip(s) == IF s # <<>> /\ s[Len(s)] = " " THEN rstrip(SubSeq(s, 1, Len(s) - 1)) ELSE s
\* str.strip()
strip(s) == rstrip(lstrip(s))

Digits == <<"0","1","2","3","4","5","6","7","8","9">>
IsDigit(c) == \E i \in 1..10 : Digits[i] = c
DigitVal(c) == (CHOOSE i \in 1..10 : Digits[i] = c) - 1
RECURSIVE NatOf(_)
\* the value of a string of digits (0 for the empty one)
NatOf(s) == IF s = <<>> THEN 0 ELSE NatOf(SubSeq(s, 1, Len(s) - 1)) * 10 + DigitVal(s[Len(s)])

\* pd.to_numeric(..., errors='coerce') on one cell: a signed decimal gives its
\* value, anything else NaN. Values are in tenths, so a cell of the model has at
\* most one digit after the point.
to_numeric(s) ==
  LET neg  == s # <<>> /\ s[1] = "-"
      body == IF neg THEN Tail(s) ELSE s
      dots == { i \in 1..Len(body) : body[i] = "." }
      d    == IF dots = {} THEN Len(body) + 1 ELSE CHOOSE i \in dots : TRUE
      int  == SubSeq(body, 1, d - 1)
      frac == SubSeq(body, d + 1, Len(body))
      ok   == /\ Cardinality(dots) <= 1
              /\ \A i \in 1..Len(int) : IsDigit(int[i])
              /\ \A i \in 1..Len(frac) : IsDigit(frac[i])
              /\ Len(int) + Len(frac) > 0
              /\ Len(frac) <= 1
      mag  == NatOf(int) * 10 + NatOf(frac)
  IN  IF ok THEN << IF neg THEN 0 - mag ELSE mag >> ELSE NaN

\* the cleaning of one coordinate cell, src/app.py:415-418: the degree sign (the
\* character "deg") is removed, then surrounding blanks, then the text is parsed
CleanCell(cell) == to_numeric(strip(remove(cell, "deg")))

\* src/app.py:414-422 on the rows of the uploaded frame
CleanFrame(rows) ==
  [i \in 1..Len(rows) |->
     [id |-> rows[i].id, lat |-> CleanCell(rows[i].lat), lon |-> CleanCell(rows[i].lon)]]

RECURSIVE dropna_All(_)
\* a dropna that removes a row only when both coordinates are missing
dropna_All(rows) ==
  IF rows = <<>> THEN <<>>
  ELSE IF Head(rows).lat = NaN /\ Head(rows).lon = NaN THEN dropna_All(Tail(rows))
  ELSE <<Head(rows)>> \o dropna_All(Tail(rows))

RECURSIVE dropna(_)
\* df.dropna(subset=[lat_col, lon_col]), src/app.py:425
dropna(rows) ==
  IF rows = <<>> THEN <<>>
  ELSE IF Head(rows).lat = NaN \/ Head(rows).lon = NaN THEN dropna(Tail(rows))
  ELSE <<Head(rows)>> \o dropna(Tail(rows))

\* the number held by a cleaned cell; a NaN compares false with every bound
\* (src/app.py:179-180), as does 0, which lies in no box
Num(x) == IF x = NaN THEN 0 ELSE x[1]

(* ---------- transform ---------- *)
\* the value of county_name when no county is given (src/app.py:218, 303)
NoCounty == <<None>>
\* the truth value of county_name, src/app.py:222 and 245-246
Truthy(county_name) == county_name # NoCounty /\ county_name # <<>>

MARION == <<"M","A","R","I","O","N">>

\* county_upper after src/app.py:222-224; the local stays unbound without a name
CountyUpper(county_name) ==
  IF Truthy(county_name) THEN NormalizeCounty(county_name) ELSE "unbound"

\* a scalar assigned to a column: one copy for every row
Broadcast(value, df) == [i \in 1..Len(df) |-> value]

\* gdf.to_crs(epsg) and one coordinate of the projected points (the projection
\* itself is an external primitive: the value names the CRS and the source point)
Projected(axis, epsg, df) ==
  [i \in 1..Len(df) |-> <<axis, epsg, df[i].lat, df[i].lon>>]

\* the columns of src/app.py:231-234
InitialColumns(df) ==
  ("ID" :> [i \in 1..Len(df) |-> df[i].id]) @@
  ("Latitude_WGS84" :> [i \in 1..Len(df) |-> df[i].lat]) @@
  ("Longitude_WGS84" :> [i \in 1..Len(df) |-> df[i].lon])

\* src/app.py:247-263 for a target county: the state-plane columns, then the
\* lookup of county_upper (an error while it is unbound), then the county columns
ReprojectColumns(target_county, df, county_upper, output_df, registry) ==
  LET state_plane_epsg == get_state_plane_zone(target_county)
      zone_name == IF state_plane_epsg = INDIANA_STATE_PLANE.EAST THEN "East" ELSE "West"
      withZone ==
        (("Easting_Indiana_" \o zone_name \o "_ft") :> Projected("x", state_plane_epsg, df)) @@
        (("Northing_Indiana_" \o zone_name \o "_ft") :> Projected("y", state_plane_epsg, df)) @@
        ("State_Plane_Zone" :> Broadcast(zone_name, df)) @@
        ("State_Plane_EPSG" :> Broadcast(state_plane_epsg, df)) @@ output_df
      county_epsg == DictGet(registry, county_upper, 0)
      county_formatted == Join(title(replace(target_county, "_", " ")))
      withCounty ==
        (("Easting_" \o county_formatted \o "_ft") :> Projected("x", county_epsg, df)) @@
        (("Northing_" \o county_formatted \o "_ft") :> Projected("y", county_epsg, df)) @@
        ("County_EPSG" :> Broadcast(county_epsg, df)) @@ withZone
  IN  IF county_upper = "unbound"
        THEN [raised |-> "UnboundLocalError", output_df |-> withZone]
      ELSE IF county_epsg # 0 THEN [raised |-> None, output_df |-> withCounty]
      ELSE [raised |-> None, output_df |-> withZone]

\* a tail that takes the target from the first detected county when there is one
transform_tail_DetectedTarget(df, county_name, auto_detect, county_upper, output_df, registry) ==
  LET detected == IF "Detected_County" \in DOMAIN output_df
                  THEN output_df["Detected_County"] ELSE <<>>
      given == IF Truthy(county_name) THEN county_name ELSE MARION
  IN  IF Truthy(county_name) \/ ~auto_detect
        THEN ReprojectColumns(
               IF detected # <<>> /\ detected[1] \in DOMAIN Spell
                 THEN Spell[detected[1]] ELSE given,
               df, county_upper, output_df, registry)
      ELSE [raised |-> None, output_df |-> output_df]

\* src/app.py:244-265: the branch on (county_name or not auto_detect), the default
\* target 'MARION', and the frame returned
transform_tail(df, county_name, auto_detect, county_upper, output_df, registry) ==
  IF Truthy(county_name) \/ ~auto_detect
    THEN ReprojectColumns(IF Truthy(county_name) THEN county_name ELSE MARION,
                          df, county_upper, output_df, registry)
  ELSE [raised |-> None, output_df |-> output_df]

\* the zone and CRS codes written to the rows of a returned frame
CrsOf(out) ==
  { << out["State_Plane_Zone"][i], out["State_Plane_EPSG"][i],
       IF "County_EPSG" \in DOMAIN out THEN out["County_EPSG"][i] ELSE 0 >> :
    i \in 1..Len(out["ID"]) }

(* ---------- inputs of the model ---------- *)
\* (latitude, longitude) cells of an uploaded row: ("39.9", "-86.1"),
\* (" 38.0" and a degree sign, "-86.1" and a degree sign and a blank),
\* ("abc", "-86.1"), ("39.9", "86 W")
CellRows ==
  { << <<"3","9",".","9">>, <<"-","8","6",".","1">> >>,
    << <<" ","3","8",".","0","deg">>, <<"-","8","6",".","1","deg"," ">> >>,
    << <<"a","b","c">>, <<"-","8","6",".","1">> >>,
    << <<"3","9",".","9">>, <<"8","6"," ","W">> >> }

RECURSIVE SeqsUpTo(_, _)
\* the sequences over S of length at most n
SeqsUpTo(S, n) ==
  IF n = 0 THEN { <<>> }
  ELSE SeqsUpTo(S, n - 1) \cup
       { Append(q, x) : q \in { r \in SeqsUpTo(S, n - 1) : Len(r) = n - 1 }, x \in S }

\* a frame: its rows numbered in file order
Frame(cells) == [i \in 1..Len(cells) |-> [id |-> i, lat |-> cells[i][1], lon |-> cells[i][2]]]

\* the uploaded files: up to MaxRows rows
RawUploads == { Frame(q) : q \in SeqsUpTo(CellRows, MaxRows) }
\* the frames given to transform_coordinates by another caller: (39.9, -86.1)
\* lies in the boxes of MARION and HAMILTON, (38.0, -86.1) in none
PointSample == { << <<399>>, <<-861>> >>, << <<380>>, <<-861>> >> }
NumericFrames == { Frame(q) : q \in SeqsUpTo(PointSample, MaxRows) }

\* the registry keys offered for selection (src/app.py:295-301 lists every key)
SelectableKeys == {"MARION", "LAKE", "WHITE"}
\* the county_name arguments of direct calls
CountyArgs == { NoCounty, MARION, DisplayName(Spell["LAKE"]), DisplayName(Spell["WHITE"]) }

(* ---------- state ---------- *)
VARIABLES
  pc,                   \* where the script is
  csv,                  \* the state of 'indiana_county_epsg.csv'
  INDIANA_COUNTY_EPSG,  \* the module-level registry, src/app.py:65
  county_boundaries,    \* st.session_state.county_boundaries, "absent" while unset
  loadCalls,            \* calls of load_indiana_counties_geojson in this session
  fetched,              \* how the latest boundary fetch ended, "never" before one
  caller,               \* who called transform_coordinates
  uploaded,             \* the frame read from the uploaded file
  county_name, auto_detect, df, county_upper,   \* arguments and locals of transform_coordinates
  idx, detected_counties, output_df,
  result,               \* how the latest handler run ended
  message,              \* the latest st.warning / st.error / st.info text
  shown,                \* target and CRS codes of the latest returned frame
  arg, ret              \* argument and result of a single function application

vars == << pc, csv, INDIANA_COUNTY_EPSG, county_boundaries, loadCalls, fetched, caller,
           uploaded, county_name, auto_detect, df, county_upper, idx, detected_counties,
           output_df, result, message, shown, arg, ret >>

frame == << caller, county_name, auto_detect, df, county_upper, idx, detected_counties,
            output_df >>

NoShown == [county |-> NoCounty, crs |-> {}]

\* the values every specification starts from
Blank ==
  /\ INDIANA_COUNTY_EPSG = <<>>
  /\ county_boundaries = "absent"
  /\ loadCalls = 0
  /\ fetched = "never"
  /\ caller = "none"
  /\ uploaded = <<>>
  /\ county_name = NoCounty
  /\ auto_detect = FALSE
  /\ df = <<>>
  /\ county_upper = "unbound"
  /\ idx = 1
  /\ detected_counties = <<>>
  /\ output_df = <<>>
  /\ result = "none"
  /\ message = "none"
  /\ shown = NoShown

Init ==
  /\ pc = "import"
  /\ csv \in CsvStates
  /\ arg = <<>>
  /\ ret = "none"
  /\ Blank

(* ---------- script start ---------- *)
\* src/app.py:65: the module-level load; an exception ends every run of the script
Import ==
  /\ pc = "import"
  /\ LET r == load_county_epsg_codes(csv)
     IN  /\ INDIANA_COUNTY_EPSG' = r.value
         /\ pc' = IF r.raised = None THEN "idle" ELSE "crashed"
         /\ result' = IF r.raised = None THEN result ELSE "raised"
         /\ message' = IF r.raised # None THEN r.raised
                        ELSE IF r.warning THEN "Using default EPSG codes" ELSE message
  /\ UNCHANGED << csv, county_boundaries, loadCalls, fetched, uploaded, frame, shown, arg, ret >>

(* ---------- transform_coordinates ---------- *)
\* src/app.py:221-234 and the entry of the loop at 237-239
BeginTransform(who, rows, county, auto) ==
  /\ caller' = who
  /\ df' = rows
  /\ county_name' = county
  /\ auto_detect' = auto
  /\ county_upper' = CountyUpper(county)
  /\ idx' = 1
  /\ detected_counties' = <<>>
  /\ output_df' = IF auto /\ Len(rows) = 0
                     THEN ("Detected_County" :> <<>>) @@ InitialColumns(rows)
                   ELSE InitialColumns(rows)
  /\ result' = "running"
  /\ pc' = IF auto /\ Len(rows) > 0 THEN "detect" ELSE "reproject"

\* an exception leaving transform_coordinates: show_file_upload catches it
\* (src/app.py:457-458), any other caller lets it through
Raise(exc) ==
  /\ result' = IF caller = "file" THEN "error_shown" ELSE "raised"
  /\ message' = IF caller = "file" THEN "Error processing file" ELSE exc
  /\ pc' = "done"

\* one iteration of the loop of src/app.py:239-241, and line 242 after the last
DetectRow ==
  /\ pc = "detect"
  /\ \E fetch \in FetchOutcomes, hit \in BoundaryHits :
       LET r == detect_county_from_coordinates(Num(df[idx].lat), Num(df[idx].lon),
                                               county_boundaries, fetch, hit)
           detected == Append(detected_counties,
                              IF r.county # None THEN r.county ELSE "Unknown")
       IN  /\ county_boundaries' = r.boundaries
           /\ loadCalls' = loadCalls + r.loads
           /\ fetched' = IF r.fetched = "unused" THEN fetched ELSE r.fetched
           /\ IF r.raised # None
                THEN /\ Raise(r.raised)
                     /\ output_df' = <<>>
                     /\ UNCHANGED << idx, detected_counties >>
              ELSE /\ detected_counties' = detected
                   /\ idx' = idx + 1
                   /\ output_df' = IF idx = Len(df)
                                      THEN ("Detected_County" :> detected) @@ output_df
                                    ELSE output_df
                   /\ pc' = IF idx = Len(df) THEN "reproject" ELSE "detect"
                   /\ UNCHANGED << result, message >>
  /\ UNCHANGED << csv, INDIANA_COUNTY_EPSG, caller, uploaded, county_name, auto_detect,
                  df, county_upper, shown, arg, ret >>

\* src/app.py:244-265 and the return to the caller
Reproject ==
  /\ pc = "reproject"
  /\ LET r == transform_tail(df, county_name, auto_detect, county_upper, output_df,
                             INDIANA_COUNTY_EPSG)
     IN  IF r.raised # None
           THEN /\ Raise(r.raised)
                /\ output_df' = <<>>
                /\ UNCHANGED shown
         ELSE /\ output_df' = r.output_df
              /\ result' = "returned"
              /\ message' = "Transformation completed!"
              /\ pc' = "done"
              /\ shown' = IF "State_Plane_EPSG" \in DOMAIN r.output_df /\ Len(df) > 0
                             THEN [county |-> county_name, crs |-> CrsOf(r.output_df)]
                           ELSE shown
  /\ UNCHANGED << csv, INDIANA_COUNTY_EPSG, county_boundaries, loadCalls, fetched, caller,
                  uploaded, county_name, auto_detect, df, county_upper, idx,
                  detected_counties, arg, ret >>

\* a call of transform_coordinates from outside the two forms, with any arguments
\* its signature admits (src/app.py:217-218)
CallTransform ==
  /\ pc = "idle"
  /\ \E rows \in NumericFrames, county \in CountyArgs, auto \in BOOLEAN :
       BeginTransform("direct", rows, county, auto)
  /\ uploaded' = <<>>
  /\ message' = "none"
  /\ UNCHANGED << csv, INDIANA_COUNTY_EPSG, county_boundaries, loadCalls, fetched, shown,
                  arg, ret >>

(* ---------- the upload form ---------- *)
\* county_options, src/app.py:295-296, of the keys offered for selection
county_options(registry) ==
  { DisplayName(Spell[key]) : key \in SelectableKeys \cap DOMAIN registry }

\* the test of src/app.py:427
EmptyBatch(df_clean) == Len(df_clean) = 0

\* the choices of src/app.py:288-303 and the button of src/app.py:411-437: the
\* frame is cleaned, an empty one ends the run, any other goes to the transform
FileUpload ==
  /\ pc = "idle"
  /\ \E raw \in RawUploads,
        selected_county \in {NoCounty} \cup county_options(INDIANA_COUNTY_EPSG) :
       LET auto == (selected_county = NoCounty)
           df_clean == dropna(CleanFrame(raw))
       IN  /\ uploaded' = raw
           /\ IF EmptyBatch(df_clean)
                THEN /\ result' = "aborted"
                     /\ message' = "No valid coordinates found after cleaning!"
                     /\ pc' = "done"
                     /\ caller' = "file"
                     /\ county_name' = selected_county
                     /\ auto_detect' = auto
                     /\ df' = <<>>
                     /\ county_upper' = "unbound"
                     /\ idx' = 1
                     /\ detected_counties' = <<>>
                     /\ output_df' = <<>>
              ELSE /\ BeginTransform("file", df_clean, selected_county, auto)
                   /\ message' = "Processing valid coordinate pairs"
  /\ UNCHANGED << csv, INDIANA_COUNTY_EPSG, county_boundaries, loadCalls, fetched, shown,
                  arg, ret >>

\* the run of the script is over: its locals are gone, the session state stays,
\* and the page waits for the next interaction
EndRun ==
  /\ pc = "done"
  /\ pc' = "idle"
  /\ caller' = "none"
  /\ uploaded' = <<>>
  /\ county_name' = NoCounty
  /\ auto_detect' = FALSE
  /\ df' = <<>>
  /\ county_upper' = "unbound"
  /\ idx' = 1
  /\ detected_counties' = <<>>
  /\ output_df' = <<>>
  /\ result' = "none"
  /\ message' = "none"
  /\ UNCHANGED << csv, INDIANA_COUNTY_EPSG, county_boundaries, loadCalls, fetched, shown,
                  arg, ret >>

Next == Import \/ FileUpload \/ CallTransform \/ DetectRow \/ Reproject \/ EndRun

Spec == Init /\ [][Next]_vars

(* ---------- single applications of the pure functions ---------- *)
InitZone ==
  /\ pc = "zone_call"
  /\ csv = "missing"
  /\ arg \in NameInputs
  /\ ret = "none"
  /\ Blank

\* one application of get_state_plane_zone
ZoneCall ==
  /\ pc = "zone_call"
  /\ ret' = get_state_plane_zone(arg)
  /\ pc' = "zone_done"
  /\ UNCHANGED << csv, INDIANA_COUNTY_EPSG, county_boundaries, loadCalls, fetched,
                  uploaded, frame, result, message, shown, arg >>

NextZone == ZoneCall

SpecZone == InitZone /\ [][NextZone]_vars

InitBox ==
  /\ pc = "box_call"
  /\ csv = "missing"
  /\ arg \in PointInputs
  /\ ret = "none"
  /\ Blank

\* one application of detect_county_simple
BoxCall ==
  /\ pc = "box_call"
  /\ ret' = detect_county_simple(arg[1], arg[2])
  /\ pc' = "box_done"
  /\ UNCHANGED << csv, INDIANA_COUNTY_EPSG, county_boundaries, loadCalls, fetched,
                  uploaded, frame, result, message, shown, arg >>

NextBox == BoxCall

SpecBox == InitBox /\ [][NextBox]_vars

(* ---------- properties ---------- *)
\* the point (lat, lon) lies in the box, bounds included
Contains(box, lat, lon) ==
  box.lat[1] <= lat /\ lat <= box.lat[2] /\ box.lon[1] <= lon /\ lon <= box.lon[2]
\* the indices of the boxes that hold the point
BoxesOf(lat, lon) == { i \in 1..Len(county_bounds) : Contains(county_bounds[i], lat, lon) }
\* the row's point lies in at least one box
InSomeBox(row) == BoxesOf(Num(row.lat), Num(row.lon)) # {}
\* the index of the box declared for a county
BoxIndex(county) == CHOOSE i \in 1..Len(county_bounds) : county_bounds[i].county = county

\* the name, upper-cased with blanks as underscores or replaced by its alias,
\* spells a member of the East set
NormalizesToEast(name) ==
  \E k \in east_counties :
    IF Join(name) \in DOMAIN COUNTY_NAME_MAPPING
      THEN COUNTY_NAME_MAPPING[Join(name)] = k
    ELSE replace(upper(name), " ", "_") = Spell[k]

\* C1: get_state_plane_zone gives a code for every name: 2965 (EAST) when the name
\* normalizes to a member of the East set, 2966 (WEST) for every other string.
C1_ZoneIsTotal ==
  pc = "zone_done" =>
    /\ ret \in {2965, 2966}
    /\ ret = 2965 <=> NormalizesToEast(arg)

\* C1 witness: the alias 'Saint Joseph' has been resolved to the EAST code
C1_Witness == pc = "zone_done" /\ arg = SaintJoseph /\ ret = 2965

\* C2: a returned auto-detect call without a county on a non-empty frame carries the
\* East state-plane columns, State_Plane_EPSG 2965, Marion's county columns and
\* Detected_County.
C2_AutoDetectDefaultsToMarion ==
  (pc = "done" /\ result = "returned" /\ auto_detect /\ county_name = NoCounty
     /\ Len(df) > 0) =>
    /\ { "Detected_County", "Easting_Indiana_East_ft", "Northing_Indiana_East_ft",
         "State_Plane_EPSG", "Easting_Marion_ft", "Northing_Marion_ft", "County_EPSG" }
         \subseteq DOMAIN output_df
    /\ output_df["State_Plane_EPSG"] = [i \in 1..Len(df) |-> 2965]
    /\ output_df["County_EPSG"] = [i \in 1..Len(df) |-> INDIANA_COUNTY_EPSG["MARION"]]

\* C3: with the registry file missing or malformed the load does not raise and gives
\* the embedded registry, which has an entry for each of the 92 counties: every name
\* of the FIPS table and of the East set is a key.
C3_RegistryFallback ==
  (pc # "import" /\ csv # "ok") =>
    /\ pc # "crashed"
    /\ INDIANA_COUNTY_EPSG = DefaultCountyEpsg
    /\ \A f \in DOMAIN get_indiana_fips_mapping :
         get_indiana_fips_mapping[f] \in DOMAIN INDIANA_COUNTY_EPSG
    /\ east_counties \subseteq DOMAIN INDIANA_COUNTY_EPSG
    /\ Cardinality(DOMAIN INDIANA_COUNTY_EPSG) = 92

C5_FastPathNoBuild ==
  [][ (pc = "detect" /\ InSomeBox(df[idx])) =>
        /\ county_boundaries' = county_boundaries
        /\ loadCalls' = loadCalls
        /\ fetched' = fetched
        /\ Len(detected_counties') = idx
        /\ \E i \in BoxesOf(Num(df[idx].lat), Num(df[idx].lon)) :
             detected_counties'[idx] = county_bounds[i].county ]_vars

\* C5 witness: a point in a box has been resolved while the index is still unbuilt
C5_Witness ==
  /\ pc \in {"detect", "reproject"} /\ idx > 1
  /\ InSomeBox(df[1]) /\ detected_counties[1] = "MARION"
  /\ county_boundaries = "absent" /\ loadCalls = 0

\* C6: once the boundary fetch has failed, every point outside the boxes resolves to
\* 'Unknown', no exception leaves the resolver or the transform, and a returned
\* auto-detect batch has one Detected_County value per row.
C6_FetchFailureDegrades ==
  (fetched \notin {"never", "ok"} /\ auto_detect /\ pc \in {"detect", "reproject", "done"}) =>
    /\ result \notin {"raised", "error_shown"}
    /\ \A i \in 1..Len(detected_counties) :
         ~InSomeBox(df[i]) => detected_counties[i] = "Unknown"
    /\ result = "returned" =>
         /\ "Detected_County" \in DOMAIN output_df
         /\ output_df["Detected_County"] = detected_counties
         /\ Len(detected_counties) = Len(df)

\* C6 witness: a batch returned after a failed fetch, with an 'Unknown' row
C6_Witness ==
  /\ pc = "done" /\ result = "returned" /\ auto_detect /\ fetched = "timeout"
  /\ \E i \in 1..Len(df) : ~InSomeBox(df[i]) /\ output_df["Detected_County"][i] = "Unknown"

\* C7: every call of transform_coordinates returns normally, and a call without a
\* county and without auto-detect returns the East state-plane columns and Marion's
\* county columns.
C7_NoCountyNoAutoUsesMarion ==
  (pc = "done" /\ result # "aborted") =>
    /\ result = "returned"
    /\ (county_name = NoCounty /\ ~auto_detect) =>
         { "Easting_Indiana_East_ft", "Northing_Indiana_East_ft", "State_Plane_EPSG",
           "Easting_Marion_ft", "Northing_Marion_ft", "County_EPSG" }
           \subseteq DOMAIN output_df

\* the rows of the uploaded frame whose latitude and longitude both parse
Parsed(rows) ==
  { i \in 1..Len(rows) : CleanCell(rows[i].lat) # NaN /\ CleanCell(rows[i].lon) # NaN }

\* C8: in the upload form, when no row has both coordinates parsed the run ends with
\* the 'no valid coordinates' message, without a call of transform_coordinates and
\* without output; otherwise transform_coordinates gets exactly the parsed rows, in
\* file order, with their parsed values.
C8_UploadCleaning ==
  caller = "file" =>
    IF Parsed(uploaded) = {}
      THEN /\ pc = "done" /\ result = "aborted"
           /\ message = "No valid coordinates found after cleaning!"
           /\ df = <<>> /\ output_df = <<>>
    ELSE /\ result # "aborted"
         /\ Len(df) = Cardinality(Parsed(uploaded))
         /\ \A k \in 1..Len(df) :
              /\ df[k].id \in Parsed(uploaded)
              /\ df[k].lat = CleanCell(uploaded[df[k].id].lat)
              /\ df[k].lon = CleanCell(uploaded[df[k].id].lon)
              /\ k > 1 => df[k-1].id < df[k].id

\* C8 witness: an upload of at least two rows, none of them usable, has been refused
C8_Witness ==
  caller = "file" /\ result = "aborted" /\ Len(uploaded) >= 2 /\ pc = "done"

\* C9: a call with a target county writes one zone name, one State_Plane_EPSG and one
\* county EPSG to all its rows, and the same ones as the latest earlier call with
\* that county, whatever the rows and their detected counties were.
C9_CrsFromTargetAlone ==
  [][ (pc = "reproject" /\ pc' = "done" /\ result' = "returned" /\ Len(df) > 0
         /\ "State_Plane_EPSG" \in DOMAIN output_df') =>
        /\ Cardinality(CrsOf(output_df')) = 1
        /\ shown.county = county_name => shown.crs = CrsOf(output_df') ]_vars

\* C9 witness: a returned frame whose rows were detected in different counties and
\* carry a single zone and CRS
C9_Witness ==
  /\ pc = "done" /\ result = "returned" /\ Truthy(county_name) /\ auto_detect
  /\ Len(df) >= 2
  /\ output_df["Detected_County"][1] # output_df["Detected_County"][2]
  /\ Cardinality(CrsOf(output_df)) = 1

\* C10: detect_county_simple returns the county of the first box, in declaration
\* order, that holds the point (bounds included) and None when no box does; in the
\* overlap of MARION and HAMILTON it is MARION, in that of LA_PORTE and ST_JOSEPH
\* it is LA_PORTE.
C10_FirstBoxWins ==
  pc = "box_done" =>
    LET hits == BoxesOf(arg[1], arg[2])
    IN  /\ hits = {} => ret = None
        /\ hits # {} => ret = county_bounds[CHOOSE i \in hits : \A j \in hits : i <= j].county
        /\ {BoxIndex("MARION"), BoxIndex("HAMILTON")} \subseteq hits => ret = "MARION"
        /\ {BoxIndex("LA_PORTE"), BoxIndex("ST_JOSEPH")} \subseteq hits => ret = "LA_PORTE"

\* C10 witness: a corner shared by the boxes of MARION and HAMILTON resolved to MARION
C10_Witness == pc = "box_done" /\ arg = <<400, -862>> /\ ret = "MARION"

(* ---------- case variants of a county name ---------- *)
\* the pairs of names that differ at most in the case of their letters
CasePairs == { <<a, b>> \in NameInputs \X NameInputs : lower(a) = lower(b) }

\* what a name yields: the zone of get_state_plane_zone (src/app.py:87-90) and the
\* registry entry read through county_upper (src/app.py:222-224, 257)
CountyOutcome(name) ==
  << get_state_plane_zone(name), DictGet(DefaultCountyEpsg, CountyUpper(name), 0) >>

InitCase ==
  /\ pc = "case_call"
  /\ csv = "missing"
  /\ arg \in CasePairs
  /\ ret = "none"
  /\ Blank

\* both names of the pair are normalized and looked up
CaseCall ==
  /\ pc = "case_call"
  /\ ret' = << CountyOutcome(arg[1]), CountyOutcome(arg[2]) >>
  /\ pc' = "case_done"
  /\ UNCHANGED << csv, INDIANA_COUNTY_EPSG, county_boundaries, loadCalls, fetched,
                  uploaded, frame, result, message, shown, arg >>

NextCase == CaseCall

SpecCase == InitCase /\ [][NextCase]_vars

\* C11: two names that differ only in letter case, alias forms included, get the
\* same zone and the same registry entry.
C11_CaseInsensitive == pc = "case_done" => ret[1] = ret[2]

(* ---------- labelling of the boundary features ---------- *)
InitFips ==
  /\ pc = "fips_call"
  /\ csv = "missing"
  /\ arg \in IndianaFips
  /\ ret = "none"
  /\ Blank

\* the label of one Indiana feature, src/app.py:118-119
FipsCall ==
  /\ pc = "fips_call"
  /\ ret' = DictGet(get_indiana_fips_mapping, arg, "Unknown")
  /\ pc' = "fips_done"
  /\ UNCHANGED << csv, INDIANA_COUNTY_EPSG, county_boundaries, loadCalls, fetched,
                  uploaded, frame, result, message, shown, arg >>

NextFips == FipsCall

SpecFips == InitFips /\ [][NextFips]_vars

\* the county names the table can give
FipsNames == { get_indiana_fips_mapping[f] : f \in DOMAIN get_indiana_fips_mapping }

\* C12: the FIPS table has 92 distinct keys, one for each of 92 distinct county
\* names, SCOTT and every county of the East set among them, and labels no Indiana
\* feature 'Unknown'.
C12_FipsTableOneToOne ==
  pc = "fips_done" =>
    /\ Cardinality({ FipsPairs[i][1] : i \in 1..Len(FipsPairs) }) = 92
    /\ Cardinality(DOMAIN get_indiana_fips_mapping) = 92
    /\ Cardinality(FipsNames) = 92
    /\ "SCOTT" \in FipsNames
    /\ east_counties \subseteq FipsNames
    /\ ret # "Unknown"
====
